---- MODULE Spec2Model ----
(***************************************************************************)
(* A model of aiosteamist (src/aiosteamist/__init__.py): the Steamist      *)
(* base client, its two adapters (SteamistModel550 over 30303 discovery,   *)
(* SteamistModel450 over HTTP/XML), the SteamistStatus value and the       *)
(* factory create_steamist_from.                                           *)
(*                                                                         *)
(* Coroutines are tasks of one cooperative event loop: a task runs         *)
(* atomically from one await to the next.  The clock is time.monotonic().  *)
(* Text is a sequence of one-character strings.                            *)
(***************************************************************************)
EXTENDS Integers, Sequences, FiniteSets, TLC

\* ------------------------------------------------------------------ bounds
MaxClock == 11
MaxTempLen == 4
MaxDevices == 2

MaxLeft == 3

MaxPairClock == 15
PairStep == 5

\* ------------------------------------------------------- program constants
TRANSITION_SECONDS == 10
STEAM_ON_LED == 6
STEAM_OFF_LED == 7
NEVER_TIME == -1200
STATUS_ENDPOINT == "/status.xml"
SET_ENDPOINT == "/leds.cgi"
MODEL_550 == "MODEL_550"
MODEL_450 == "MODEL_450"

\* ------------------------------------------------------------- the universe
Inst == {"s1", "s2"}
Task == {"t1", "t2"}
Driven == {"s1"}
ModelStrings == {MODEL_550, MODEL_450, "other"}
HttpStatuses == {200, 500}

Digits == {"0", "1", "2", "3", "4", "5", "6", "7", "8", "9"}
TempAlphabet == {"0", "7", "X", "F", "C"}
AllTemp0 == UNION {[1..n -> TempAlphabet] : n \in 0..MaxTempLen}
Temp0Sample == {<<"3", "7", "X", "C">>, <<"E", "r", "r">>}
Time0Sample == {<<"0">>, <<"1", "5">>, <<"x">>}

\* python values: an int or None
PyInt(n) == [py |-> "int", v |-> n]
PyNone == [py |-> "None", v |-> 0]

\* SteamistStatus(): the dataclass and its field defaults
SteamistStatus == [temp |-> PyInt(0), temp_units |-> "", minutes_remain |-> 0,
                   seconds_remain |-> 0, active |-> FALSE]

\* additional_data of a discovered Device30303
DeviceSample ==
    [temperature : {105}, temp_unit : {"F", "C"}, minutesleft : {3},
     secondsleft : {45}, profile : {0, 1}]
FoundDevices == UNION {[1..n -> DeviceSample] : n \in 0..MaxDevices}

\* additional_data over a wider range, for the status factory alone
DeviceRange ==
    [temperature : {0, 105, 212}, temp_unit : {"F", "C"}, minutesleft : 0..MaxLeft,
     secondsleft : {0, 45}, profile : {0, 1, 2}]

VARIABLES
    now,                       \* time.monotonic()
    kind,                      \* per instance slot: the class of the object in it
    transition_complete_time,  \* per instance: self._transition_complete_time
    transiton_state,           \* per instance: self._transiton_state
    task,                      \* per task: the coroutine it is suspended in
    out,                       \* what the last step handed back to its caller
    last_cmd                   \* per instance: the last turn_on/turn_off that completed

vars == <<now, kind, transition_complete_time, transiton_state, task, out, last_cmd>>

Idle ==
    [pc |-> "idle", op |-> "", inst |-> "", endpoint |-> "", params |-> <<>>,
     status |-> 0, sent |-> 0, scans |-> 0, ticked |-> FALSE]

\* no device: the additional_data slot of a step that discovered none
NoDevice ==
    [temperature |-> 0, temp_unit |-> "", minutesleft |-> 0, secondsleft |-> 0,
     profile |-> 0]

NoOut ==
    [op |-> "", task |-> "", inst |-> "", outcome |-> "none", error |-> "",
     returned |-> "", value |-> SteamistStatus, arg |-> "", text |-> "",
     sent |-> 0, scans |-> 0, sessions |-> 0, net_failed |-> FALSE,
     http_status |-> 0, malformed |-> FALSE, temp0 |-> <<>>, time0 |-> <<>>,
     found |-> 0, ticked |-> FALSE, before |-> "", device |-> NoDevice]

\* ---------------------------------------------------------- pure functions
Max(S) == CHOOSE x \in S : \A y \in S : y <= x

\* the length of the longest prefix of s matched by [0-9]+ (0: no digit leads)
DigitRun(s) == Max({k \in 0..Len(s) : \A j \in 1..k : s[j] \in Digits})

\* the pattern written ([0-9])+X<unit>: the group holds the last digit alone
TEMP_REGEX_match_last(s, unit) ==
    LET k == DigitRun(s)
    IN  IF k >= 1 /\ Len(s) >= k + 2 /\ s[k + 1] = "X" /\ s[k + 2] = unit
        THEN [matched |-> TRUE, group1 |-> SubSeq(s, k, k)]
        ELSE [matched |-> FALSE, group1 |-> <<>>]

\* re.compile("([0-9]+)X<unit>").match(s): anchored at the start of s only;
\* the greedy digit run cannot give a digit back, the next character being X
TEMP_REGEX_match(s, unit) ==
    LET k == DigitRun(s)
    IN  IF k >= 1 /\ Len(s) >= k + 2 /\ s[k + 1] = "X" /\ s[k + 2] = unit
        THEN [matched |-> TRUE, group1 |-> SubSeq(s, 1, k)]
        ELSE [matched |-> FALSE, group1 |-> <<>>]

TEMP_REGEX_F(s) == TEMP_REGEX_match(s, "F")

TEMP_REGEX_C(s) == TEMP_REGEX_match(s, "C")

DigitVal(c) ==
    CASE c = "0" -> 0 [] c = "1" -> 1 [] c = "2" -> 2 [] c = "3" -> 3
      [] c = "4" -> 4 [] c = "5" -> 5 [] c = "6" -> 6 [] c = "7" -> 7
      [] c = "8" -> 8 [] c = "9" -> 9

\* int(s) accepts s: over the characters of the model, a nonempty run of digits
int_accepts(s) == Len(s) >= 1 /\ \A j \in 1..Len(s) : s[j] \in Digits

\* int(s) for a string of digits, most significant digit first
RECURSIVE int(_)
int(s) ==
    IF s = <<>> THEN 0
    ELSE 10 * int(SubSeq(s, 1, Len(s) - 1)) + DigitVal(s[Len(s)])

\* the two time attributes copied into each other's field
create_from_device_30303_swapped(additional_data) ==
    [temp |-> PyInt(additional_data.temperature),
     temp_units |-> additional_data.temp_unit,
     minutes_remain |-> additional_data.secondsleft,
     seconds_remain |-> additional_data.minutesleft,
     active |-> additional_data.profile # 0]

\* SteamistStatus.create_from_device_30303
create_from_device_30303(additional_data) ==
    [temp |-> PyInt(additional_data.temperature),
     temp_units |-> additional_data.temp_unit,
     minutes_remain |-> additional_data.minutesleft,
     seconds_remain |-> additional_data.secondsleft,
     active |-> additional_data.profile # 0]

\* the base class answering model() like an adapter
model_raises_never(k) == FALSE

\* <class>.model(): the base class raises NotImplementedError
model_raises(k) == k = "Steamist"

model(k) == IF k = "SteamistModel550" THEN MODEL_550 ELSE MODEL_450

\* the factory testing for the 450 constant and defaulting to the 550 adapter
create_class_default_550(m) ==
    IF m = MODEL_450 THEN "SteamistModel450" ELSE "SteamistModel550"

\* the class create_steamist_from instantiates for a model string
create_class(m) ==
    IF m = model("SteamistModel550") THEN "SteamistModel550" ELSE "SteamistModel450"

\* websession() called before the model string is looked at
create_sessions_eager(m) == 1

\* how often create_steamist_from calls websession()
create_sessions(m) == IF m = model("SteamistModel550") THEN 0 ELSE 1

\* the window test with the expiry instant counted as inside the window
in_transition_inclusive(i) == transition_complete_time[i] >= now

\* the window test of SteamistModel450.async_get_status
in_transition(i) == transition_complete_time[i] > now

\* the unit left at the dataclass default when neither pattern matches
temp_units_450_unset(groups_f, groups_c) ==
    IF groups_f.matched THEN "F" ELSE IF groups_c.matched THEN "C" ELSE ""

\* units of SteamistModel450.async_get_status: "F" unless the Celsius branch ran
temp_units_450(groups_f, groups_c) ==
    IF ~groups_f.matched /\ groups_c.matched THEN "C" ELSE "F"

\* a pending turn_off zeroing the minutes along with active
minutes_remain_450_zeroed(i, time0) ==
    IF in_transition(i) /\ ~transiton_state[i] THEN 0 ELSE int(time0)

\* minutes_remain of SteamistModel450.async_get_status
minutes_remain_450(i, time0) == int(time0)

\* SteamistModel450.async_get_status from the parsed reply on: body is what
\* xmltodict.parse sees, an empty element's text being None
status_450(i, body) ==
    LET temp0 == body.temp0
        time0 == body.time0
        groups_f == TEMP_REGEX_F(temp0)
        groups_c == TEMP_REGEX_C(temp0)
        temp == IF groups_f.matched THEN PyInt(int(groups_f.group1))
                ELSE IF groups_c.matched THEN PyInt(int(groups_c.group1))
                ELSE PyNone
        units == temp_units_450(groups_f, groups_c)
        minutes_remain == minutes_remain_450(i, time0)
        active == IF in_transition(i) THEN transiton_state[i] ELSE minutes_remain > 0
    IN  IF body.malformed
        THEN [outcome |-> "raise", error |-> "ExpatError", value |-> SteamistStatus]
        ELSE IF temp0 = <<>> \/ time0 = <<>>
        THEN [outcome |-> "raise", error |-> "TypeError", value |-> SteamistStatus]
        ELSE IF ~int_accepts(time0)
        THEN [outcome |-> "raise", error |-> "ValueError", value |-> SteamistStatus]
        ELSE [outcome |-> "return", error |-> "",
              value |-> [temp |-> temp, temp_units |-> units,
                         minutes_remain |-> minutes_remain,
                         seconds_remain |-> 0, active |-> active]]

\* SteamistModel550.async_get_status once the scan is over
status_550(found_devices) ==
    IF Len(found_devices) > 0
    THEN [returned |-> "status", value |-> create_from_device_30303(found_devices[1])]
    ELSE [returned |-> "None", value |-> SteamistStatus]

\* ------------------------------------------------------------------- state
NoCmd == [done |-> FALSE, state |-> FALSE, at |-> 0]

Init ==
    /\ now = 0
    /\ kind = [i \in Inst |-> "none"]
    /\ transition_complete_time = [i \in Inst |-> NEVER_TIME]
    /\ transiton_state = [i \in Inst |-> FALSE]
    /\ task = [t \in Task |-> Idle]
    /\ out = NoOut
    /\ last_cmd = [i \in Inst |-> NoCmd]

\* the constructor starting the expiry at +1200 instead of NEVER_TIME
Steamist_init_positive(i, k) ==
    /\ kind' = [kind EXCEPT ![i] = k]
    /\ transition_complete_time' = [transition_complete_time EXCEPT ![i] = 0 - NEVER_TIME]
    /\ transiton_state' = [transiton_state EXCEPT ![i] = FALSE]
    /\ last_cmd' = [last_cmd EXCEPT ![i] = NoCmd]

\* Steamist.__init__ on the object in slot i, of class k
Steamist_init(i, k) ==
    /\ kind' = [kind EXCEPT ![i] = k]
    /\ transition_complete_time' = [transition_complete_time EXCEPT ![i] = NEVER_TIME]
    /\ transiton_state' = [transiton_state EXCEPT ![i] = FALSE]
    /\ last_cmd' = [last_cmd EXCEPT ![i] = NoCmd]

\* the two fields kept on the class, one copy for all instances
async_set_transition_shared(i, state) ==
    /\ transiton_state' = [j \in Inst |-> state]
    /\ transition_complete_time' = [j \in Inst |-> now + TRANSITION_SECONDS]

\* Steamist._async_set_transition
async_set_transition(i, state) ==
    /\ transiton_state' = [transiton_state EXCEPT ![i] = state]
    /\ transition_complete_time' =
           [transition_complete_time EXCEPT ![i] = now + TRANSITION_SECONDS]

\* both adapters sending the led
sends_led_both(k) == k \in {"SteamistModel450", "SteamistModel550"}

\* the classes whose async_turn_on_steam / async_turn_off_steam send a led to
\* the device before arming the transition: SteamistModel450 overrides them,
\* SteamistModel550 inherits Steamist's
sends_led(k) == k = "SteamistModel450"

\* the two led ids swapped
led_of_swapped(op) == IF op = "turn_on" THEN STEAM_OFF_LED ELSE STEAM_ON_LED

\* the led id async_turn_on_steam / async_turn_off_steam hand to async_set_led
led_of(op) == IF op = "turn_on" THEN STEAM_ON_LED ELSE STEAM_OFF_LED

\* turn_off arming the transition like turn_on
state_of_on(op) == TRUE

\* the boolean async_turn_on_steam / async_turn_off_steam arm the transition with
state_of(op) == op = "turn_on"

\* SteamistModel450._get up to its first await: the request goes out
get(t, i, op, endpoint, params) ==
    task' = [task EXCEPT ![t] =
                [pc |-> "request", op |-> op, inst |-> i, endpoint |-> endpoint,
                 params |-> params, status |-> 0, sent |-> task[t].sent + 1,
                 scans |-> 0, ticked |-> FALSE]]

\* what a status poll would be overridden with, were it evaluated now
pending(i) ==
    IF ~in_transition(i) THEN "" ELSE IF transiton_state[i] THEN "on" ELSE "off"

\* the return (or raise) of task t's call, as its caller sees it
Returned(t, fields) ==
    [fields EXCEPT !.task = t, !.op = task[t].op, !.inst = task[t].inst,
                   !.sent = task[t].sent, !.scans = task[t].scans,
                   !.ticked = task[t].ticked]

\* ----------------------------------------------------------------- actions
\* the clock moves on
Tick ==
    /\ now < MaxClock
    /\ now' = now + 1
    /\ task' = [t \in Task |->
                   IF task[t].op \in {"turn_on", "turn_off"}
                   THEN [task[t] EXCEPT !.ticked = TRUE]
                   ELSE task[t]]
    /\ out' = NoOut
    /\ UNCHANGED <<kind, transition_complete_time, transiton_state, last_cmd>>

\* Steamist(host): the base class constructed directly
new_Steamist(i) ==
    /\ kind[i] = "none"
    /\ Steamist_init(i, "Steamist")
    /\ out' = [NoOut EXCEPT !.op = "Steamist", !.inst = i, !.outcome = "return",
                            !.returned = "adapter"]
    /\ UNCHANGED <<now, task>>

\* Steamist.create_steamist_from(host, m, websession)
create_steamist_from(i, m) ==
    /\ kind[i] = "none"
    /\ Steamist_init(i, create_class(m))
    /\ out' = [NoOut EXCEPT !.op = "create_steamist_from", !.inst = i,
                            !.outcome = "return", !.returned = "adapter",
                            !.arg = m, !.sessions = create_sessions(m)]
    /\ UNCHANGED <<now, task>>

\* <object in slot i>.model()
call_model(i) ==
    /\ kind[i] # "none"
    /\ out' = IF model_raises(kind[i])
              THEN [NoOut EXCEPT !.op = "model", !.inst = i, !.outcome = "raise",
                                 !.error = "NotImplementedError"]
              ELSE [NoOut EXCEPT !.op = "model", !.inst = i, !.outcome = "return",
                                 !.returned = "str", !.text = model(kind[i])]
    /\ UNCHANGED <<now, kind, transition_complete_time, transiton_state, task, last_cmd>>

\* async_turn_on_steam / async_turn_off_steam, from the call to the first await
\* (SteamistModel450) or to the return (Steamist, SteamistModel550)
async_turn_steam(t, i, op) ==
    /\ task[t].pc = "idle"
    /\ kind[i] # "none"
    /\ IF sends_led(kind[i])
       THEN /\ get(t, i, op, SET_ENDPOINT, <<led_of(op)>>)
            /\ out' = NoOut
            /\ UNCHANGED <<transition_complete_time, transiton_state, last_cmd>>
       ELSE /\ async_set_transition(i, state_of(op))
            /\ last_cmd' = [last_cmd EXCEPT ![i] =
                               [done |-> TRUE, state |-> op = "turn_on", at |-> now]]
            /\ out' = [NoOut EXCEPT !.task = t, !.op = op, !.inst = i,
                                    !.outcome = "return", !.returned = "None",
                                    !.before = pending(i)]
            /\ UNCHANGED task
    /\ UNCHANGED <<now, kind>>

async_turn_on_steam(t, i) == async_turn_steam(t, i, "turn_on")

async_turn_off_steam(t, i) == async_turn_steam(t, i, "turn_off")

\* async_get_status, from the call to the first await (the adapters) or to the
\* raise (Steamist)
async_get_status(t, i) ==
    /\ task[t].pc = "idle"
    /\ kind[i] # "none"
    /\ CASE kind[i] = "SteamistModel450" ->
              /\ get(t, i, "get_status", STATUS_ENDPOINT, <<>>)
              /\ out' = NoOut
         [] kind[i] = "SteamistModel550" ->
              /\ task' = [task EXCEPT ![t] =
                             [Idle EXCEPT !.pc = "scan", !.op = "get_status",
                                          !.inst = i, !.scans = 1]]
              /\ out' = NoOut
         [] OTHER ->
              /\ out' = [NoOut EXCEPT !.task = t, !.op = "get_status", !.inst = i,
                                      !.outcome = "raise",
                                      !.error = "NotImplementedError"]
              /\ UNCHANGED task
    /\ UNCHANGED <<now, kind, transition_complete_time, transiton_state, last_cmd>>

\* self._websession.request(...) returns a response, of any status
request_done(t, st) ==
    /\ task[t].pc = "request"
    /\ task' = [task EXCEPT ![t].pc = "text", ![t].status = st]
    /\ out' = NoOut
    /\ UNCHANGED <<now, kind, transition_complete_time, transiton_state, last_cmd>>

\* a command arming the transition although its request failed
network_fail_arming(t) ==
    /\ task[t].pc \in {"request", "text"}
    /\ out' = Returned(t, [NoOut EXCEPT !.outcome = "raise", !.error = "NetworkError",
                                        !.net_failed = TRUE,
                                        !.http_status = task[t].status])
    /\ task' = [task EXCEPT ![t] = Idle]
    /\ IF task[t].op \in {"turn_on", "turn_off"}
       THEN async_set_transition(task[t].inst, state_of(task[t].op))
       ELSE UNCHANGED <<transition_complete_time, transiton_state>>
    /\ UNCHANGED <<now, kind, last_cmd>>

\* a failed request sent once more before the error is handed on
network_fail_retry(t) ==
    /\ task[t].pc \in {"request", "text"}
    /\ IF task[t].sent < 2
       THEN /\ task' = [task EXCEPT ![t].pc = "request", ![t].status = 0,
                                    ![t].sent = task[t].sent + 1]
            /\ out' = NoOut
       ELSE /\ out' = Returned(t, [NoOut EXCEPT !.outcome = "raise",
                                                !.error = "NetworkError",
                                                !.net_failed = TRUE,
                                                !.http_status = task[t].status])
            /\ task' = [task EXCEPT ![t] = Idle]
    /\ UNCHANGED <<now, kind, transition_complete_time, transiton_state, last_cmd>>

\* self._websession.request(...) or response.text() raises: no connection, a
\* timeout, a broken transfer
network_fail(t) ==
    /\ task[t].pc \in {"request", "text"}
    /\ out' = Returned(t, [NoOut EXCEPT !.outcome = "raise", !.error = "NetworkError",
                                        !.net_failed = TRUE,
                                        !.http_status = task[t].status])
    /\ task' = [task EXCEPT ![t] = Idle]
    /\ UNCHANGED <<now, kind, transition_complete_time, transiton_state, last_cmd>>

\* async_get_status clearing a window it finds expired
resume_get_status_clearing(t, body) ==
    /\ task[t].pc = "text"
    /\ task[t].op = "get_status"
    /\ LET r == status_450(task[t].inst, body)
       IN  out' = Returned(t, [NoOut EXCEPT
                      !.outcome = r.outcome, !.error = r.error,
                      !.returned = IF r.outcome = "return" THEN "status" ELSE "",
                      !.value = r.value, !.http_status = task[t].status,
                      !.malformed = body.malformed,
                      !.temp0 = body.temp0, !.time0 = body.time0])
    /\ task' = [task EXCEPT ![t] = Idle]
    /\ transition_complete_time' =
           IF in_transition(task[t].inst) THEN transition_complete_time
           ELSE [transition_complete_time EXCEPT ![task[t].inst] = NEVER_TIME]
    /\ UNCHANGED <<now, kind, transiton_state, last_cmd>>

\* response.text() returns to async_get_status, which runs to its end
resume_get_status(t, body) ==
    /\ task[t].pc = "text"
    /\ task[t].op = "get_status"
    /\ LET r == status_450(task[t].inst, body)
       IN  out' = Returned(t, [NoOut EXCEPT
                      !.outcome = r.outcome, !.error = r.error,
                      !.returned = IF r.outcome = "return" THEN "status" ELSE "",
                      !.value = r.value, !.http_status = task[t].status,
                      !.malformed = body.malformed,
                      !.temp0 = body.temp0, !.time0 = body.time0])
    /\ task' = [task EXCEPT ![t] = Idle]
    /\ UNCHANGED <<now, kind, transition_complete_time, transiton_state, last_cmd>>

\* response.text() returns to async_set_led and so to async_turn_on_steam /
\* async_turn_off_steam, which arms the transition and returns
resume_turn_steam(t) ==
    /\ task[t].pc = "text"
    /\ task[t].op \in {"turn_on", "turn_off"}
    /\ async_set_transition(task[t].inst, state_of(task[t].op))
    /\ last_cmd' = [last_cmd EXCEPT ![task[t].inst] =
                       [done |-> TRUE, state |-> task[t].op = "turn_on", at |-> now]]
    /\ out' = Returned(t, [NoOut EXCEPT !.outcome = "return", !.returned = "None",
                                        !.http_status = task[t].status,
                                        !.before = pending(task[t].inst)])
    /\ task' = [task EXCEPT ![t] = Idle]
    /\ UNCHANGED <<now, kind>>

\* scanner.async_scan(timeout=5, address=host) is over: SteamistModel550's
\* async_get_status runs to its end
scan_done(t, found_devices) ==
    /\ task[t].pc = "scan"
    /\ LET r == status_550(found_devices)
       IN  out' = Returned(t, [NoOut EXCEPT !.outcome = "return",
                                            !.returned = r.returned,
                                            !.value = r.value,
                                            !.found = Len(found_devices),
                                            !.device =
                                                IF Len(found_devices) > 0
                                                THEN found_devices[1]
                                                ELSE NoDevice])
    /\ task' = [task EXCEPT ![t] = Idle]
    /\ UNCHANGED <<now, kind, transition_complete_time, transiton_state, last_cmd>>

\* the reply of the device to GET /status.xml, as xmltodict.parse hands it on
Bodies(temp0s, time0s) ==
    [malformed : {FALSE}, temp0 : temp0s, time0 : time0s]
        \cup {[malformed |-> TRUE, temp0 |-> <<>>, time0 |-> <<>>]}

Next ==
    \/ Tick
    \/ \E i \in Driven : new_Steamist(i)
    \/ \E i \in Driven, m \in ModelStrings : create_steamist_from(i, m)
    \/ \E i \in Driven : call_model(i)
    \/ \E t \in Task, i \in Driven : async_turn_on_steam(t, i)
    \/ \E t \in Task, i \in Driven : async_turn_off_steam(t, i)
    \/ \E t \in Task, i \in Driven : async_get_status(t, i)
    \/ \E t \in Task, st \in HttpStatuses : request_done(t, st)
    \/ \E t \in Task : network_fail(t)
    \/ \E t \in Task, body \in Bodies(Temp0Sample, Time0Sample) :
           resume_get_status(t, body)
    \/ \E t \in Task : resume_turn_steam(t)
    \/ \E t \in Task, found_devices \in FoundDevices : scan_done(t, found_devices)

Spec == Init /\ [][Next]_vars

\* GET /status.xml replies alone, over every temp0 text up to MaxTempLen
InitParse ==
    /\ now = 0
    /\ kind = [i \in Inst |-> IF i \in Driven THEN create_class(MODEL_450) ELSE "none"]
    /\ transition_complete_time = [i \in Inst |-> NEVER_TIME]
    /\ transiton_state = [i \in Inst |-> FALSE]
    /\ task = [t \in Task |-> Idle]
    /\ out = NoOut
    /\ last_cmd = [i \in Inst |-> NoCmd]

NextParse ==
    \/ \E i \in Driven : async_get_status("t1", i)
    \/ \E st \in HttpStatuses : request_done("t1", st)
    \/ \E body \in Bodies(AllTemp0, {<<"5">>}) : resume_get_status("t1", body)

SpecParse == InitParse /\ [][NextParse]_vars

\* ------------------------------------------------------------------ claims
IsGetStatus(i) == out.op = "get_status" /\ out.inst = i /\ out.outcome # "none"

IsCommand(i) == out.op \in {"turn_on", "turn_off"} /\ out.inst = i /\ out.outcome # "none"

\* a status came back from get_status on instance i
GotStatus(i) == IsGetStatus(i) /\ out.outcome = "return" /\ out.returned = "status"

\* C1: on the HTTP adapter, a get_status evaluated less than 10 seconds after
\* the last completed turn_on/turn_off reports that command's boolean as
\* active, whatever time0 was polled; evaluated 10 seconds after it or later,
\* it reports active = (minutes_remain > 0).
C1_WindowThenPolled ==
    \A i \in Inst :
        (GotStatus(i) /\ kind[i] = "SteamistModel450" /\ last_cmd[i].done) =>
            IF now < last_cmd[i].at + 10
            THEN out.value.active = last_cmd[i].state
            ELSE out.value.active = (out.value.minutes_remain > 0)

\* C1 witness: turn_on completed, ten seconds or more went by, and a poll of
\* time0 = "0" reports active = false again.
C1_Witness ==
    \E i \in Inst :
        /\ GotStatus(i) /\ kind[i] = "SteamistModel450"
        /\ last_cmd[i].done /\ last_cmd[i].state
        /\ now >= last_cmd[i].at + 10
        /\ out.time0 = <<"0">> /\ ~out.value.active

\* C2: the transition state holds the most recent completed command alone: its
\* boolean, and an expiry 10 seconds after it armed; a get_status of the HTTP
\* adapter inside that window reports that boolean.
C2_LastCommandWins ==
    \A i \in Inst :
        last_cmd[i].done =>
            /\ transiton_state[i] = last_cmd[i].state
            /\ transition_complete_time[i] = last_cmd[i].at + 10
            /\ (GotStatus(i) /\ kind[i] = "SteamistModel450"
                    /\ now < last_cmd[i].at + 10) =>
                   out.value.active = last_cmd[i].state

\* C2 witness: turn_off returns on the HTTP adapter while the window of a
\* turn_on is still open, and the transition state is turn_off's.
C2_Witness ==
    \E i \in Inst :
        /\ IsCommand(i) /\ out.op = "turn_off" /\ out.outcome = "return"
        /\ kind[i] = "SteamistModel450"
        /\ out.before = "on"
        /\ ~transiton_state[i] /\ transition_complete_time[i] = now + 10

\* C3: on the Discovery adapter, a get_status whose scan finds no device ends
\* in a NotFound error and never hands the caller an empty result.
C3_NoDeviceIsNotFound ==
    \A i \in Inst :
        (IsGetStatus(i) /\ kind[i] = "SteamistModel550" /\ out.found = 0) =>
            (out.outcome = "raise" /\ out.error = "NotFoundError")

\* s is <digits>X<unit>, the whole of it
IsTempForm(s, unit) ==
    /\ Len(s) >= 3
    /\ s[Len(s)] = unit
    /\ s[Len(s) - 1] = "X"
    /\ \A j \in 1..(Len(s) - 2) : s[j] \in Digits

RECURSIVE Pow10(_)
Pow10(n) == IF n = 0 THEN 1 ELSE 10 * Pow10(n - 1)

\* the number the digits of <digits>X<unit> write, digit by place value
RECURSIVE PlaceValue(_, _)
PlaceValue(s, j) ==
    IF j > Len(s) - 2 THEN 0
    ELSE DigitVal(s[j]) * Pow10(Len(s) - 2 - j) + PlaceValue(s, j + 1)

\* C4: on the HTTP adapter, a get_status whose temp0 is neither <digits>XF nor
\* <digits>XC fails; it never returns a status.
C4_UnparseableTempFails ==
    \A i \in Inst :
        (IsGetStatus(i) /\ kind[i] = "SteamistModel450" /\ ~out.malformed
             /\ ~IsTempForm(out.temp0, "F") /\ ~IsTempForm(out.temp0, "C")) =>
            out.outcome = "raise"

\* C5: on the HTTP adapter, a get_status whose temp0 is <digits>XF or
\* <digits>XC (and whose time0 is a number) returns temp = the number the
\* digits write and temp_units = "F" or "C" respectively.
C5_TempAndUnitExtracted ==
    \A i \in Inst :
        \A unit \in {"F", "C"} :
            (IsGetStatus(i) /\ kind[i] = "SteamistModel450" /\ ~out.malformed
                 /\ int_accepts(out.time0) /\ IsTempForm(out.temp0, unit)) =>
                /\ out.outcome = "return"
                /\ out.value.temp = PyInt(PlaceValue(out.temp0, 1))
                /\ out.value.temp_units = unit

\* C5 witness: temp0 = "70XC" came back as 70 degrees Celsius.
C5_Witness ==
    \E i \in Inst :
        /\ GotStatus(i) /\ kind[i] = "SteamistModel450"
        /\ out.temp0 = <<"7", "0", "X", "C">>
        /\ out.value.temp = PyInt(70) /\ out.value.temp_units = "C"

\* C6: on either adapter, a status returned by get_status inside the window of
\* the last completed command has active = that command's boolean.
C6_EveryAdapterOverrides ==
    \A i \in Inst :
        (GotStatus(i) /\ kind[i] \in {"SteamistModel450", "SteamistModel550"}
             /\ last_cmd[i].done /\ now < last_cmd[i].at + 10) =>
            out.value.active = last_cmd[i].state

\* C7: on the HTTP adapter, a get_status, turn_on or turn_off whose request
\* met a network failure or a non-2xx response ends in an error.
C7_FailedRequestRaises ==
    \A i \in Inst :
        ((IsGetStatus(i) \/ IsCommand(i)) /\ kind[i] = "SteamistModel450"
             /\ (out.net_failed \/ out.http_status \notin 200..299)) =>
            out.outcome = "raise"

\* C8: the factory returns a Discovery adapter, whose model() is the 550
\* constant, exactly when the model string is the 550 constant; for every
\* other string it returns an HTTP adapter, whose model() is the 450 constant.
C8_FactorySelectsAdapter ==
    \A i \in Inst :
        (out.op = "create_steamist_from" /\ out.inst = i) =>
            /\ out.outcome = "return"
            /\ IF out.arg = MODEL_550
               THEN kind[i] = "SteamistModel550" /\ ~model_raises(kind[i])
                        /\ model(kind[i]) = MODEL_550
               ELSE kind[i] = "SteamistModel450" /\ ~model_raises(kind[i])
                        /\ model(kind[i]) = MODEL_450

\* C8 witness: a model string that is neither constant gave an HTTP adapter.
C8_Witness ==
    \E i \in Inst :
        /\ out.op = "create_steamist_from" /\ out.inst = i
        /\ out.arg \notin {MODEL_550, MODEL_450}
        /\ kind[i] = "SteamistModel450"

\* C9: on the Discovery adapter, turn_on and turn_off return having sent no
\* HTTP request and started no scan; the step sets the pending state to the
\* command's boolean and the expiry to now + 10 and changes nothing else.
C9_DiscoveryCommandsAreLocal ==
    [][\A i \in Inst :
          (kind[i] = "SteamistModel550" /\ out'.inst = i
               /\ out'.op \in {"turn_on", "turn_off"}) =>
              /\ out'.outcome = "return"
              /\ out'.sent = 0 /\ out'.scans = 0
              /\ transiton_state'[i] = (out'.op = "turn_on")
              /\ transition_complete_time'[i] = now + 10
              /\ \A j \in Inst \ {i} :
                     /\ transiton_state'[j] = transiton_state[j]
                     /\ transition_complete_time'[j] = transition_complete_time[j]
              /\ UNCHANGED <<now, kind, task>>
      ]_vars

\* C9 witness: turn_off returned on a Discovery adapter while a scan of the
\* other task was under way, and the window runs from now.
C9_Witness ==
    \E i \in Inst :
        /\ IsCommand(i) /\ out.op = "turn_off" /\ kind[i] = "SteamistModel550"
        /\ out.sent = 0 /\ out.scans = 0
        /\ ~transiton_state[i] /\ transition_complete_time[i] = now + 10
        /\ now > 0
        /\ \E t \in Task : task[t].pc = "scan"

\* C10: on the HTTP adapter, the request of turn_on is a GET of the control
\* path with led=6 and that of turn_off one with led=7; the transition state
\* of the instance changes in no step but the one in which such a request's
\* reply reaches the command, which then arms it with the command's boolean
\* and an expiry 10 seconds after that step.
C10_ArmedAtTheReply ==
    [][\A i \in Inst :
          kind[i] = "SteamistModel450" =>
              /\ \A t \in Task :
                     (task'[t].inst = i /\ task'[t].op \in {"turn_on", "turn_off"}) =>
                         /\ task'[t].pc \in {"request", "text"}
                         /\ task'[t].endpoint = "/leds.cgi"
                         /\ task'[t].params =
                                IF task'[t].op = "turn_on" THEN <<6>> ELSE <<7>>
                         /\ task'[t].sent = 1
              /\ (out'.inst = i /\ out'.op \in {"turn_on", "turn_off"}
                      /\ out'.outcome = "return") =>
                     /\ task[out'.task].pc = "text" /\ task[out'.task].inst = i
                     /\ task[out'.task].op = out'.op
                     /\ transiton_state'[i] = (out'.op = "turn_on")
                     /\ transition_complete_time'[i] = now + 10
              /\ ~(out'.inst = i /\ out'.op \in {"turn_on", "turn_off"}
                       /\ out'.outcome = "return") =>
                     /\ transiton_state'[i] = transiton_state[i]
                     /\ transition_complete_time'[i] = transition_complete_time[i]
      ]_vars

\* C10 witness: turn_on returned on the HTTP adapter after the clock moved
\* while its request was in flight, and the window runs from the return.
C10_Witness ==
    \E i \in Inst :
        /\ IsCommand(i) /\ out.op = "turn_on" /\ out.outcome = "return"
        /\ kind[i] = "SteamistModel450"
        /\ out.ticked /\ out.sent = 1
        /\ transiton_state[i] /\ transition_complete_time[i] = now + 10


\* C11: on the HTTP adapter, a get_status, turn_on or turn_off has issued one
\* HTTP request while it is in flight and exactly one when it returns or
\* raises, whether the request succeeded or failed.
C11_OneRequestPerCall ==
    \A i \in Inst :
        kind[i] = "SteamistModel450" =>
            /\ ((IsGetStatus(i) \/ IsCommand(i)) => out.sent = 1)
            /\ \A t \in Task : task[t].inst = i => task[t].sent = 1

\* C11 witness: a get_status of the HTTP adapter ended in a network error
\* after its one request.
C11_Witness ==
    \E i \in Inst :
        /\ IsGetStatus(i) /\ kind[i] = "SteamistModel450"
        /\ out.outcome = "raise" /\ out.net_failed /\ out.sent = 1


\* an operation of the public surface ended on the base-class object i
IsBaseCall(i) ==
    /\ out.inst = i /\ kind[i] = "Steamist" /\ out.outcome # "none"
    /\ out.op \in {"get_status", "turn_on", "turn_off", "model"}

\* C12 (as claimed): on the base client type, get_status, turn_on, turn_off
\* and model() all end in an unsupported-operation error; none completes
\* normally.
C12_EveryBaseOperationRaises ==
    \A i \in Inst :
        IsBaseCall(i) => (out.outcome = "raise" /\ out.error = "NotImplementedError")

\* C12 (amended): on the base client type, get_status and model() end in
\* NotImplementedError on every invocation and return no value; turn_on and
\* turn_off are no placeholders: they return normally, having armed the
\* transition with the command's boolean.
C12_BasePlaceholdersRaise ==
    \A i \in Inst :
        IsBaseCall(i) =>
            IF out.op \in {"get_status", "model"}
            THEN out.outcome = "raise" /\ out.error = "NotImplementedError"
                     /\ out.returned = ""
            ELSE /\ out.outcome = "return"
                 /\ transiton_state[i] = (out.op = "turn_on")
                 /\ transition_complete_time[i] = now + 10

\* C12 witness: model() raised on a base-class object.
C12_Witness ==
    \E i \in Inst :
        /\ IsBaseCall(i) /\ out.op = "model"
        /\ out.outcome = "raise" /\ out.error = "NotImplementedError"

\* C13: on an HTTP adapter on which no turn_on/turn_off has completed,
\* get_status reports active = (minutes_remain > 0) at every clock value.
C13_FreshAdapterReportsPolled ==
    \A i \in Inst :
        (GotStatus(i) /\ kind[i] = "SteamistModel450" /\ ~last_cmd[i].done) =>
            out.value.active = (out.value.minutes_remain > 0)

\* C13 witness: no command yet, the clock has moved, time0 = "0" polls as
\* active = false.
C13_Witness ==
    \E i \in Inst :
        /\ GotStatus(i) /\ kind[i] = "SteamistModel450" /\ ~last_cmd[i].done
        /\ now > 0 /\ out.time0 = <<"0">> /\ ~out.value.active

\* C19: the factory calls the session factory exactly once when it returns an
\* HTTP adapter and never when it returns a Discovery adapter.
C19_SessionFactoryCalls ==
    \A i \in Inst :
        (out.op = "create_steamist_from" /\ out.inst = i) =>
            /\ kind[i] = "SteamistModel450" => out.sessions = 1
            /\ kind[i] = "SteamistModel550" => out.sessions = 0
            /\ kind[i] \in {"SteamistModel450", "SteamistModel550"}

\* C19 witness: the factory returned a Discovery adapter without a session.
C19_Witness ==
    \E i \in Inst :
        /\ out.op = "create_steamist_from" /\ out.inst = i
        /\ kind[i] = "SteamistModel550" /\ out.sessions = 0


RECURSIVE Decimal(_, _)
Decimal(s, j) ==
    IF j > Len(s) THEN 0
    ELSE DigitVal(s[j]) * Pow10(Len(s) - j) + Decimal(s, j + 1)

\* C20: every status returned by the HTTP adapter has seconds_remain = 0 and
\* minutes_remain = the number time0 writes, inside a transition window or not.
C20_MinutesPolledSecondsZero ==
    \A i \in Inst :
        (GotStatus(i) /\ kind[i] = "SteamistModel450") =>
            /\ out.value.seconds_remain = 0
            /\ out.value.minutes_remain = Decimal(out.time0, 1)

\* C20 witness: inside the window of a turn_off, time0 = "15" comes back as 15
\* minutes, 0 seconds and active = false.
C20_Witness ==
    \E i \in Inst :
        /\ GotStatus(i) /\ kind[i] = "SteamistModel450"
        /\ last_cmd[i].done /\ ~last_cmd[i].state /\ now < last_cmd[i].at + 10
        /\ out.time0 = <<"1", "5">>
        /\ out.value.minutes_remain = 15 /\ out.value.seconds_remain = 0
        /\ ~out.value.active


\* discovery replies alone, over every attribute bundle of DeviceRange
InitDevice ==
    /\ now = 0
    /\ kind = [i \in Inst |-> IF i \in Driven THEN create_class(MODEL_550) ELSE "none"]
    /\ transition_complete_time = [i \in Inst |-> NEVER_TIME]
    /\ transiton_state = [i \in Inst |-> FALSE]
    /\ task = [t \in Task |-> Idle]
    /\ out = NoOut
    /\ last_cmd = [i \in Inst |-> NoCmd]

NextDevice ==
    \/ \E i \in Driven : async_get_status("t1", i)
    \/ \E d \in DeviceRange : scan_done("t1", <<d>>)

SpecDevice == InitDevice /\ [][NextDevice]_vars

\* C15: the status built from discovery attributes has temp, temp_units,
\* minutes_remain and seconds_remain equal to temperature, temp_unit,
\* minutesleft and secondsleft, and active = (profile # 0).
C15_StatusFromDevice ==
    \A i \in Inst :
        (GotStatus(i) /\ kind[i] = "SteamistModel550") =>
            /\ out.value.temp = PyInt(out.device.temperature)
            /\ out.value.temp_units = out.device.temp_unit
            /\ out.value.minutes_remain = out.device.minutesleft
            /\ out.value.seconds_remain = out.device.secondsleft
            /\ out.value.active = (out.device.profile # 0)

\* C15 witness: {105, "F", 3, 45, profile 1} gave {105, "F", 3, 45, active}.
C15_Witness ==
    \E i \in Inst :
        /\ GotStatus(i) /\ kind[i] = "SteamistModel550"
        /\ out.device = [temperature |-> 105, temp_unit |-> "F", minutesleft |-> 3,
                         secondsleft |-> 45, profile |-> 1]
        /\ out.value = [temp |-> PyInt(105), temp_units |-> "F", minutes_remain |-> 3,
                        seconds_remain |-> 45, active |-> TRUE]


\* the transition state of instance i is the same after the step as before
SameTransition(i) ==
    /\ transiton_state'[i] = transiton_state[i]
    /\ transition_complete_time'[i] = transition_complete_time[i]

\* C16: no step of a get_status (its call, its awaits, its return or raise)
\* changes the pending state or the expiry of any instance, on either adapter;
\* they change only in the step in which a turn_on/turn_off returns, and the
\* passing of time leaves an expired window as it is.
C16_GetStatusLeavesTransition ==
    [][/\ out'.op = "get_status" => \A i \in Inst : SameTransition(i)
       /\ \A i \in Inst :
              ~SameTransition(i) =>
                  (out'.inst = i /\ out'.op \in {"turn_on", "turn_off"}
                       /\ out'.outcome = "return")
      ]_vars

\* C16 witness: a get_status returned on an adapter whose window had expired,
\* and the expired window is still recorded.
C16_Witness ==
    \E i \in Inst :
        /\ GotStatus(i) /\ last_cmd[i].done
        /\ now >= last_cmd[i].at + 10
        /\ transition_complete_time[i] = last_cmd[i].at + 10
        /\ transiton_state[i] = last_cmd[i].state

\* C17: on the HTTP adapter, the step in which a turn_on or turn_off ends in a
\* network error leaves the pending state and the expiry as they were.
C17_FailedCommandLeavesTransition ==
    [][\A i \in Inst :
          (kind[i] = "SteamistModel450" /\ out'.inst = i
               /\ out'.op \in {"turn_on", "turn_off"} /\ out'.net_failed) =>
              /\ out'.outcome = "raise"
              /\ \A j \in Inst : SameTransition(j)
      ]_vars

\* C17 witness: turn_on failed on the network inside the window of an earlier
\* turn_off, and the transition state is still turn_off's.
C17_Witness ==
    \E i \in Inst :
        /\ IsCommand(i) /\ out.op = "turn_on" /\ out.net_failed
        /\ kind[i] = "SteamistModel450"
        /\ last_cmd[i].done /\ ~last_cmd[i].state /\ now > last_cmd[i].at
        /\ ~transiton_state[i]
        /\ transition_complete_time[i] = last_cmd[i].at + 10


\* two adapters side by side, each driven by its own caller; the clock is
\* looked at every PairStep seconds
Driver(i) == IF i = "s1" THEN "t1" ELSE "t2"

InitPair ==
    /\ now = 0
    /\ \E m \in [Inst -> ModelStrings] : kind = [i \in Inst |-> create_class(m[i])]
    /\ transition_complete_time = [i \in Inst |-> NEVER_TIME]
    /\ transiton_state = [i \in Inst |-> FALSE]
    /\ task = [t \in Task |-> Idle]
    /\ out = NoOut
    /\ last_cmd = [i \in Inst |-> NoCmd]

TickPair ==
    /\ now + PairStep <= MaxPairClock
    /\ now' = now + PairStep
    /\ task' = [t \in Task |->
                   IF task[t].op \in {"turn_on", "turn_off"}
                   THEN [task[t] EXCEPT !.ticked = TRUE]
                   ELSE task[t]]
    /\ out' = NoOut
    /\ UNCHANGED <<kind, transition_complete_time, transiton_state, last_cmd>>

NextPair ==
    \/ TickPair
    \/ \E i \in Inst : async_turn_on_steam(Driver(i), i)
    \/ \E i \in Inst : async_turn_off_steam(Driver(i), i)
    \/ \E i \in Inst : async_get_status(Driver(i), i)
    \/ \E t \in Task : request_done(t, 200)
    \/ \E t \in Task : network_fail(t)
    \/ \E t \in Task, time0 \in {<<"0">>, <<"1", "5">>} :
           resume_get_status(t, [malformed |-> FALSE,
                                 temp0 |-> <<"3", "7", "X", "C">>, time0 |-> time0])
    \/ \E t \in Task : resume_turn_steam(t)
    \/ \E t \in Task, d \in DeviceSample : scan_done(t, <<d>>)

SpecPair == InitPair /\ [][NextPair]_vars

\* the active value a status of instance j carries, told from j's own commands
\* and j's own poll
OwnActive(j) ==
    GotStatus(j) =>
        out.value.active =
            IF kind[j] = "SteamistModel550" THEN out.device.profile # 0
            ELSE IF last_cmd[j].done /\ now < last_cmd[j].at + 10
            THEN last_cmd[j].state
            ELSE out.value.minutes_remain > 0

\* C18: with two adapter instances and their operations interleaved, the step
\* in which a turn_on/turn_off of one instance returns leaves the pending
\* state and the expiry of the other as they were, and every status of an
\* instance carries the active value its own commands and its own poll give.
C18_TransitionIsPerInstance ==
    [][/\ \A i \in Inst :
              (out'.inst = i /\ out'.op \in {"turn_on", "turn_off"}) =>
                  \A j \in Inst \ {i} : SameTransition(j)
       /\ \A j \in Inst : OwnActive(j)'
      ]_vars

\* C18 witness: two HTTP adapters; the first is inside the window of a
\* turn_on, the second, never commanded, polls time0 = "0" and reports
\* active = false.
C18_Witness ==
    /\ kind["s1"] = "SteamistModel450" /\ kind["s2"] = "SteamistModel450"
    /\ last_cmd["s1"].done /\ last_cmd["s1"].state /\ now < last_cmd["s1"].at + 10
    /\ transiton_state["s1"]
    /\ ~last_cmd["s2"].done /\ transition_complete_time["s2"] = NEVER_TIME
    /\ GotStatus("s2") /\ out.time0 = <<"0">> /\ ~out.value.active

====
